---- MODULE Spec2Model ----
(***************************************************************************)
(* Model of src/components/BurnoutCalculator.tsx: the BurnoutCalculator    *)
(* component, its scoring function, its two classifiers, its mode          *)
(* handlers and the asynchronous handleShare.                              *)
(*                                                                         *)
(* Numbers.  The sliders step by 1 and by 0.5, so every input is held as a *)
(* count of half hours (Hours(n) = 2n).  A score is held as a count of     *)
(* 1/Scale, Scale = 800, which makes every division of calculateRiskScore  *)
(* exact on these inputs and makes 3.01 and 6.01 representable.  The       *)
(* arithmetic is that of the rationals; IEEE-754 rounding of the           *)
(* JavaScript numbers is not modelled.                                     *)
(***************************************************************************)
EXTENDS Integers, Sequences, FiniteSets, TLC

VARIABLES
    inputs,          \* useState<BurnoutInputs>                  (line 30)
    showResults,     \* useState(false)                          (line 35)
    isOpen,          \* useState(true)                           (line 36)
    score,           \* const score = calculateRiskScore()       (line 136)
    riskLevel,       \* const riskLevel = getRiskLevel(score)    (line 137)
    burnoutWindow,   \* const burnoutWindow = getBurnoutWindow() (line 138)
    shares,          \* the invocations of handleShare, each with its locals
    toasts,          \* the toast(...) calls made, in order
    windowOpens,     \* the window.open(...) calls made, in order
    hrefAssignments, \* the values assigned to window.location.href, in order
    downloads,       \* the download links clicked, in order
    phase            \* "mount" before the first render, "classify" before the
                     \* classifiers are applied to a score, "idle" after

vars == <<inputs, showResults, isOpen, score, riskLevel, burnoutWindow,
          shares, toasts, windowOpens, hrefAssignments, downloads, phase>>

uiVars == <<showResults, isOpen>>
effectVars == <<toasts, windowOpens, hrefAssignments, downloads>>

----------------------------------------------------------------------------
(* Bounds of the model *)

\* how many handleShare invocations a behaviour makes
MaxShares == 1
\* how many slider steps beyond each end of a slider range the function
\* specifications draw inputs from
Over == 2

----------------------------------------------------------------------------
(* Units *)

Hours(n) == 2 * n
Scale == 8 * 10 * 10

----------------------------------------------------------------------------
(* Slider ranges, lines 178-242 *)

HoursWorkedMax == 100
SleepHoursMax == 12
SelfCareHoursMax == 40

\* the values the slider events of the component specification carry
HoursWorkedEvents == {Hours(40), Hours(60)}
SleepHoursEvents == {Hours(7), Hours(6)}
SelfCareHoursEvents == {Hours(5), Hours(2)}

\* the tuples the function specifications draw: the slider ranges, hoursWorked
\* in steps of 1 and the others in steps of 0.5, and Over steps beyond each end
HoursWorkedArgs == {Hours(h) : h \in (0 - Over)..(HoursWorkedMax + Over)}
SleepHoursArgs == (0 - Over)..(Hours(SleepHoursMax) + Over)
SelfCareHoursArgs == (0 - Over)..(Hours(SelfCareHoursMax) + Over)

BurnoutInputs(h, s, c) == [hoursWorked |-> h, sleepHours |-> s, selfCareHours |-> c]

\* useState initial value, lines 30-34
InitialInputs == BurnoutInputs(Hours(40), Hours(7), Hours(5))

----------------------------------------------------------------------------
(* calculateRiskScore, lines 41-48 *)

Min(a, b) == IF a <= b THEN a ELSE b
Max(a, b) == IF a >= b THEN a ELSE b

\* (hoursWorked - 40) / 40: the load measured as excess over the standard week
workLoadExcess(inp) == ((inp.hoursWorked - Hours(40)) * Scale) \div Hours(40)
\* inputs.hoursWorked / 40
workLoad(inp) == (inp.hoursWorked * Scale) \div Hours(40)

\* (sleepHours - 8) / 8: the sign of the deficit reversed
sleepSurplus(inp) == ((inp.sleepHours - Hours(8)) * Scale) \div Hours(8)
\* (8 - inputs.sleepHours) / 8
sleepDeficit(inp) == ((Hours(8) - inp.sleepHours) * Scale) \div Hours(8)

\* (10 - selfCareHours) / 40: normalised to the slider maximum
selfCareDeficitOfMax(inp) == ((Hours(10) - inp.selfCareHours) * Scale) \div Hours(40)
\* (10 - inputs.selfCareHours) / 10
selfCareDeficit(inp) == ((Hours(10) - inp.selfCareHours) * Scale) \div Hours(10)

\* const score = (workLoad * 4 + sleepDeficit * 3 + selfCareDeficit * 3) / 10
rawScore(inp) ==
    (workLoad(inp) * 4 + sleepDeficit(inp) * 3 + selfCareDeficit(inp) * 3) \div 10

\* score * 10, the clamp left out
calculateRiskScoreUnclamped(inp) == rawScore(inp) * 10
\* return Math.min(Math.max(score, 0), 1) * 10
calculateRiskScore(inp) == Min(Max(rawScore(inp), 0), Scale) * 10

----------------------------------------------------------------------------
(* getRiskLevel, lines 50-54, and getBurnoutWindow, lines 56-60 *)

\* the comparisons strict: score < 3, score < 6
getRiskLevelStrict(s) ==
    IF s < 3 * Scale THEN [level |-> "Low", color |-> "text-sage-500"]
    ELSE IF s < 6 * Scale THEN [level |-> "Moderate", color |-> "text-orange-500"]
    ELSE [level |-> "High", color |-> "text-red-500"]
getRiskLevel(s) ==
    IF s <= 3 * Scale THEN [level |-> "Low", color |-> "text-sage-500"]
    ELSE IF s <= 6 * Scale THEN [level |-> "Moderate", color |-> "text-orange-500"]
    ELSE [level |-> "High", color |-> "text-red-500"]

getBurnoutWindow(s) ==
    IF s <= 3 * Scale THEN "Low risk - maintain current balance"
    ELSE IF s <= 6 * Scale THEN "4-8 weeks if patterns continue"
    ELSE "2-4 weeks if patterns continue"

\* the body of the component function run again after a state change,
\* lines 136-138
Render ==
    /\ score' = calculateRiskScore(inputs')
    /\ riskLevel' = getRiskLevel(score')
    /\ burnoutWindow' = getBurnoutWindow(score')

----------------------------------------------------------------------------
(* handleCalculate, lines 121-124, and handleReset, lines 126-134 *)

\* setShowResults(true) without setIsOpen(false)
handleCalculateLeavesOpen ==
    /\ showResults' = TRUE
    /\ isOpen' = isOpen
    /\ inputs' = inputs
handleCalculate ==
    /\ showResults' = TRUE
    /\ isOpen' = FALSE
    /\ inputs' = inputs

\* the literal of setInputs in handleReset, lines 127-131
ResetInputs == BurnoutInputs(Hours(40), Hours(7), Hours(5))

\* setShowResults(false) and setIsOpen(true) without setInputs
handleResetKeepsInputs ==
    /\ inputs' = inputs
    /\ showResults' = FALSE
    /\ isOpen' = TRUE
handleReset ==
    /\ inputs' = ResetInputs
    /\ showResults' = FALSE
    /\ isOpen' = TRUE

\* the Calculate button is rendered while !showResults, lines 251-257
ClickCalculate ==
    /\ phase = "idle"
    /\ ~showResults
    /\ handleCalculate
    /\ Render
    /\ UNCHANGED <<shares, effectVars, phase>>

\* the Reset button is rendered while showResults, lines 258-265
ClickReset ==
    /\ phase = "idle"
    /\ showResults
    /\ handleReset
    /\ Render
    /\ UNCHANGED <<shares, effectVars, phase>>

----------------------------------------------------------------------------
(* Slider onValueChange, lines 184, 212, 240 *)

\* setInputs({ ...inputs, [field]: value[0] }) without the !showResults guard
onValueChangeUnguarded(field, v) ==
    inputs' = [inputs EXCEPT ![field] = v]
\* !showResults && setInputs({ ...inputs, [field]: value[0] })
onValueChange(field, v) ==
    inputs' = IF ~showResults THEN [inputs EXCEPT ![field] = v] ELSE inputs

HoursWorkedChange ==
    /\ phase = "idle"
    /\ \E v \in HoursWorkedEvents : onValueChange("hoursWorked", v)
    /\ Render
    /\ UNCHANGED <<uiVars, shares, effectVars, phase>>

SleepHoursChange ==
    /\ phase = "idle"
    /\ \E v \in SleepHoursEvents : onValueChange("sleepHours", v)
    /\ Render
    /\ UNCHANGED <<uiVars, shares, effectVars, phase>>

SelfCareHoursChange ==
    /\ phase = "idle"
    /\ \E v \in SelfCareHoursEvents : onValueChange("selfCareHours", v)
    /\ Render
    /\ UNCHANGED <<uiVars, shares, effectVars, phase>>

----------------------------------------------------------------------------
(* handleShare, lines 62-119 *)

Platforms == {"x", "linkedin", "download", "email"}

\* window.location.href, line 66
PageUrl == "window.location.href"
\* canvas.toDataURL(), line 73
DataUrl == "data:image/png"

\* score.toFixed(1): the score rounded to one decimal, as a count of tenths
toFixed1(s) == (s * 10 + Scale \div 2) \div Scale

\* the template literal of line 65 with its two substitutions
ShareText(level, s) == [level |-> level, score |-> toFixed1(s)]

\* encodeURIComponent: an injective encoding, kept apart from its argument
encodeURIComponent(t) == [encoded |-> t]

\* lines 87-90
TweetIntent(text, url) ==
    [endpoint |-> "https://twitter.com/intent/tweet",
     text |-> encodeURIComponent(text), url |-> encodeURIComponent(url)]
\* lines 94-97
LinkedInShare(text, url) ==
    [endpoint |-> "https://www.linkedin.com/sharing/share-offsite/",
     url |-> encodeURIComponent(url), summary |-> encodeURIComponent(text)]
\* lines 112-116
Mailto(text, url) ==
    [subject |-> encodeURIComponent("My Burnout Risk Assessment Results"),
     body |-> encodeURIComponent(<<text, "Try the calculator yourself at:", url>>)]

\* lines 75-79
ErrorToast ==
    [title |-> "Error generating image",
     description |-> "There was an error creating the share image",
     variant |-> "destructive"]
\* lines 105-108
DownloadToast ==
    [title |-> "Download started",
     description |-> "Your assessment has been downloaded as a PNG file"]

\* exportRef.current: the ref is attached to a div of the results panel, which
\* is rendered while showResults, lines 270 and 293
exportRefCurrent == showResults

\* the locals of an invocation after lines 63-69; inputs is the binding the
\* closure of the render holds
ShareFrame(platform) ==
    [platform |-> platform,
     inputs |-> inputs,
     score |-> calculateRiskScore(inputs),
     level |-> getRiskLevel(calculateRiskScore(inputs)).level,
     text |-> ShareText(getRiskLevel(calculateRiskScore(inputs)).level,
                        calculateRiskScore(inputs)),
     url |-> PageUrl,
     imageUrl |-> "",
     caught |-> FALSE,
     pc |-> "await"]

\* the text computed again from the state as it is when the invocation resumes
textRecomputed(f) ==
    ShareText(getRiskLevel(calculateRiskScore(inputs)).level, calculateRiskScore(inputs))
\* the const text of line 65 as the switch reads it, lines 88, 95, 113
textOf(f) == f.text

\* switch (platform), lines 83-118; shown is the toasts made so far
sharePlatform(f, imageUrl, shown) ==
    CASE f.platform = "x" ->
            /\ windowOpens' = Append(windowOpens,
                   [url |-> TweetIntent(textOf(f), f.url), target |-> "_blank"])
            /\ toasts' = shown
            /\ UNCHANGED <<hrefAssignments, downloads>>
      [] f.platform = "linkedin" ->
            /\ windowOpens' = Append(windowOpens,
                   [url |-> LinkedInShare(textOf(f), f.url), target |-> "_blank"])
            /\ toasts' = shown
            /\ UNCHANGED <<hrefAssignments, downloads>>
      [] f.platform = "download" ->
            /\ IF imageUrl # ""
               THEN /\ downloads' = Append(downloads,
                           [download |-> "burnout-assessment.png", href |-> imageUrl])
                    /\ toasts' = Append(shown, DownloadToast)
               ELSE /\ downloads' = downloads
                    /\ toasts' = shown
            /\ UNCHANGED <<windowOpens, hrefAssignments>>
      [] f.platform = "email" ->
            /\ hrefAssignments' = Append(hrefAssignments, Mailto(textOf(f), f.url))
            /\ toasts' = shown
            /\ UNCHANGED <<windowOpens, downloads>>

\* a share button is clicked, lines 327-361 (rendered while showResults, line
\* 270): handleShare runs to its await, or to its end when there is no element
\* to render
ClickShare ==
    /\ phase = "idle"
    /\ showResults
    /\ Len(shares) < MaxShares
    /\ \E platform \in Platforms :
          IF exportRefCurrent
          THEN /\ shares' = Append(shares, ShareFrame(platform))
               /\ UNCHANGED effectVars
          ELSE /\ shares' = Append(shares, [ShareFrame(platform) EXCEPT !.pc = "done"])
               /\ sharePlatform(ShareFrame(platform), "", toasts)
    /\ UNCHANGED <<inputs, uiVars, score, riskLevel, burnoutWindow, phase>>

\* html2canvas resolves: lines 73 and 83-118
html2canvasResolved(i) ==
    /\ shares[i].pc = "await"
    /\ shares' = [shares EXCEPT ![i].imageUrl = DataUrl, ![i].pc = "done"]
    /\ sharePlatform(shares[i], DataUrl, toasts)
    /\ UNCHANGED <<inputs, uiVars, score, riskLevel, burnoutWindow, phase>>

\* the catch block returning from handleShare after its toast
html2canvasRejectedReturns(i) ==
    /\ shares[i].pc = "await"
    /\ shares' = [shares EXCEPT ![i].caught = TRUE, ![i].pc = "done"]
    /\ toasts' = Append(toasts, ErrorToast)
    /\ UNCHANGED <<windowOpens, hrefAssignments, downloads>>
    /\ UNCHANGED <<inputs, uiVars, score, riskLevel, burnoutWindow, phase>>
\* html2canvas rejects: lines 74-80 and 83-118
html2canvasRejected(i) ==
    /\ shares[i].pc = "await"
    /\ shares' = [shares EXCEPT ![i].caught = TRUE, ![i].pc = "done"]
    /\ sharePlatform(shares[i], "", Append(toasts, ErrorToast))
    /\ UNCHANGED <<inputs, uiVars, score, riskLevel, burnoutWindow, phase>>

ShareResolves == \E i \in DOMAIN shares : html2canvasResolved(i)
ShareRejects == \E i \in DOMAIN shares : html2canvasRejected(i)

----------------------------------------------------------------------------
(* The component *)

Init ==
    /\ inputs = InitialInputs
    /\ showResults = FALSE
    /\ isOpen = TRUE
    /\ score = calculateRiskScore(inputs)
    /\ riskLevel = getRiskLevel(score)
    /\ burnoutWindow = getBurnoutWindow(score)
    /\ shares = <<>>
    /\ toasts = <<>>
    /\ windowOpens = <<>>
    /\ hrefAssignments = <<>>
    /\ downloads = <<>>
    /\ phase = "idle"

Next ==
    \/ HoursWorkedChange
    \/ SleepHoursChange
    \/ SelfCareHoursChange
    \/ ClickCalculate
    \/ ClickReset
    \/ ClickShare
    \/ ShareResolves
    \/ ShareRejects

Spec == Init /\ [][Next]_vars

----------------------------------------------------------------------------
(* calculateRiskScore and the classifiers applied to drawn arguments *)

NotComputed == [level |-> "", color |-> ""]

InitScore ==
    /\ inputs \in [hoursWorked : HoursWorkedArgs,
                    sleepHours : SleepHoursArgs,
                    selfCareHours : SelfCareHoursArgs]
    /\ showResults = FALSE
    /\ isOpen = TRUE
    /\ score = 0
    /\ riskLevel = NotComputed
    /\ burnoutWindow = ""
    /\ shares = <<>>
    /\ toasts = <<>>
    /\ windowOpens = <<>>
    /\ hrefAssignments = <<>>
    /\ downloads = <<>>
    /\ phase = "mount"

\* the first render of the component, lines 136-138
RenderScore ==
    /\ phase = "mount"
    /\ phase' = "idle"
    /\ inputs' = inputs
    /\ Render
    /\ UNCHANGED <<uiVars, shares, effectVars>>

SpecScore == InitScore /\ [][RenderScore]_vars

\* the scores the classifiers are applied to: 0 to 10 in steps of 1/Scale,
\* and Over steps beyond each end
ScoreArgs == (0 - Over)..(10 * Scale + Over)

InitLevel ==
    /\ inputs = InitialInputs
    /\ showResults = FALSE
    /\ isOpen = TRUE
    /\ score \in ScoreArgs
    /\ riskLevel = NotComputed
    /\ burnoutWindow = ""
    /\ shares = <<>>
    /\ toasts = <<>>
    /\ windowOpens = <<>>
    /\ hrefAssignments = <<>>
    /\ downloads = <<>>
    /\ phase = "classify"

\* getRiskLevel(score) and getBurnoutWindow(score), lines 137-138
Classify ==
    /\ phase = "classify"
    /\ phase' = "idle"
    /\ riskLevel' = getRiskLevel(score)
    /\ burnoutWindow' = getBurnoutWindow(score)
    /\ UNCHANGED <<inputs, score, uiVars, shares, effectVars>>

SpecLevel == InitLevel /\ [][Classify]_vars

----------------------------------------------------------------------------
(* Properties of calculateRiskScore, under SpecScore *)

Rendered == phase = "idle"

\* C1 as stated: calculateRiskScore at hoursWorked=40, sleepHours=8,
\* selfCareHours=10 returns 0.
C1_BaselineScoreIsZero ==
    (Rendered /\ inputs = BurnoutInputs(Hours(40), Hours(8), Hours(10))) => score = 0

\* C1 as amended: calculateRiskScore at hoursWorked=40, sleepHours=8,
\* selfCareHours=10 returns 4: both deficits are zero, and the work load of
\* 40/40 = 1 weighs 4 of 10.
C1_BaselineScoreIsFour ==
    (Rendered /\ inputs = BurnoutInputs(Hours(40), Hours(8), Hours(10)))
        => /\ sleepDeficit(inputs) = 0
           /\ selfCareDeficit(inputs) = 0
           /\ score = 4 * Scale

C1_BaselineRendered ==
    Rendered /\ inputs = BurnoutInputs(Hours(40), Hours(8), Hours(10))

\* C2: for every input tuple, inside the slider ranges or outside them, the
\* score is at least 0 and at most 10, and hoursWorked=100, sleepHours=0,
\* selfCareHours=0 gives exactly 10.
C2_ScoreInRange ==
    Rendered =>
        /\ 0 <= score
        /\ score <= 10 * Scale
        /\ (inputs = BurnoutInputs(Hours(100), 0, 0) => score = 10 * Scale)

\* the extreme tuple, whose raw score of 1.6 is above the clamp
C2_ExtremeRendered ==
    /\ Rendered
    /\ inputs = BurnoutInputs(Hours(100), 0, 0)
    /\ rawScore(inputs) > Scale

\* C3: a larger hoursWorked, the other inputs equal, has a score that is not
\* smaller; a larger sleepHours or a larger selfCareHours, the other inputs
\* equal, has a score that is not larger.
C3_Monotone ==
    Rendered =>
        /\ \A h \in HoursWorkedArgs :
              h >= inputs.hoursWorked
                  => calculateRiskScore([inputs EXCEPT !.hoursWorked = h]) >= score
        /\ \A sl \in SleepHoursArgs :
              sl >= inputs.sleepHours
                  => calculateRiskScore([inputs EXCEPT !.sleepHours = sl]) <= score
        /\ \A c \in SelfCareHoursArgs :
              c >= inputs.selfCareHours
                  => calculateRiskScore([inputs EXCEPT !.selfCareHours = c]) <= score

\* a tuple whose score moves strictly with each of the three inputs
C3_StrictlyBetween ==
    /\ Rendered
    /\ calculateRiskScore([inputs EXCEPT !.hoursWorked = @ + Hours(1)]) > score
    /\ calculateRiskScore([inputs EXCEPT !.sleepHours = @ + 1]) < score
    /\ calculateRiskScore([inputs EXCEPT !.selfCareHours = @ + 1]) < score

\* C5: hoursWorked=60, sleepHours=6, selfCareHours=2 has the raw score 0.915,
\* the score 9.15, the level High and the window "2-4 weeks if patterns
\* continue".
C5_EndToEnd ==
    (Rendered /\ inputs = BurnoutInputs(Hours(60), Hours(6), Hours(2))) =>
        /\ rawScore(inputs) * 1000 = 915 * Scale
        /\ score * 100 = 915 * Scale
        /\ riskLevel.level = "High"
        /\ burnoutWindow = "2-4 weeks if patterns continue"

C5_ExampleRendered ==
    Rendered /\ inputs = BurnoutInputs(Hours(60), Hours(6), Hours(2))

----------------------------------------------------------------------------
(* Properties of getRiskLevel, under SpecLevel *)

\* C4: a score is Low when it is at most 3, Moderate when it is above 3 and at
\* most 6, High when it is above 6, and has exactly one of the three levels;
\* 3.0 is Low, 3.01 is Moderate, 6.0 is Moderate, 6.01 is High.
C4_Thresholds ==
    Rendered =>
        /\ riskLevel.level \in {"Low", "Moderate", "High"}
        /\ riskLevel.level = "Low" <=> score <= 3 * Scale
        /\ riskLevel.level = "Moderate" <=> (3 * Scale < score /\ score <= 6 * Scale)
        /\ riskLevel.level = "High" <=> score > 6 * Scale
        /\ score * 100 = 300 * Scale => riskLevel.level = "Low"
        /\ score * 100 = 301 * Scale => riskLevel.level = "Moderate"
        /\ score * 100 = 600 * Scale => riskLevel.level = "Moderate"
        /\ score * 100 = 601 * Scale => riskLevel.level = "High"

\* the score 3.0 classified
C4_BoundaryClassified == Rendered /\ score = 3 * Scale /\ riskLevel.level = "Low"

----------------------------------------------------------------------------
(* Properties of the component, under Spec *)

Editing == showResults = FALSE /\ isOpen = TRUE
Results == showResults = TRUE /\ isOpen = FALSE

\* share i resumes in this step: its await ends and the rest of handleShare runs
Resumes(i) == i \in DOMAIN shares /\ shares[i].pc = "await" /\ shares'[i].pc = "done"

\* C6: whatever the inputs were, a step of Reset, which is the step that
\* leaves results mode, ends with the inputs 40, 7, 5 and in editing mode.
C6_ResetRestoresDefaults ==
    [][(ClickReset \/ (showResults /\ ~showResults'))
          => /\ inputs' = BurnoutInputs(Hours(40), Hours(7), Hours(5))
             /\ ~showResults'
             /\ isOpen']_vars

\* a Reset has been made from results that showed other inputs than the
\* defaults: the share invoked there holds them
C6_ResetAfterMutation ==
    /\ Editing
    /\ inputs = BurnoutInputs(Hours(40), Hours(7), Hours(5))
    /\ \E i \in DOMAIN shares : shares[i].inputs # inputs

\* C7: in results mode no step changes the inputs, nor the score, the level
\* and the window shown, which are those of the inputs, unchanged by the step
\* of Calculate; the inputs change only in a step from editing mode or in the
\* step of Reset.
C7_InputsFrozenInResults ==
    /\ [](/\ score = calculateRiskScore(inputs)
          /\ riskLevel = getRiskLevel(score)
          /\ burnoutWindow = getBurnoutWindow(score))
    /\ [][/\ showResults' =>
                /\ inputs' = inputs
                /\ score' = score
                /\ riskLevel' = riskLevel
                /\ burnoutWindow' = burnoutWindow
          /\ inputs' # inputs =>
                \/ ~showResults /\ ~showResults'
                \/ showResults /\ ~showResults' /\ inputs' = ResetInputs]_vars

\* results mode showing inputs that the sliders set
C7_ResultsOfChangedInputs ==
    /\ Results
    /\ inputs.hoursWorked # InitialInputs.hoursWorked
    /\ inputs.sleepHours # InitialInputs.sleepHours
    /\ inputs.selfCareHours # InitialInputs.selfCareHours

\* C8: the step in which the rendering of a share fails shows the "Error
\* generating image" toast and runs the share to its end: for x and linkedin
\* the window is opened, for email the mailto URL is assigned, each with the
\* text of the share; for download nothing is downloaded and no "Download
\* started" toast is shown.  The step starts no new rendering, the share stays
\* done, and the inputs and the mode are unchanged.
C8_RenderFailureStillShares ==
    [][\A i \in DOMAIN shares :
          /\ (Resumes(i) /\ shares'[i].caught) =>
                LET f == shares[i] IN
                /\ f.platform = "x" =>
                      /\ toasts' = Append(toasts, ErrorToast)
                      /\ windowOpens' = Append(windowOpens,
                             [url |-> TweetIntent(f.text, f.url), target |-> "_blank"])
                      /\ UNCHANGED <<hrefAssignments, downloads>>
                /\ f.platform = "linkedin" =>
                      /\ toasts' = Append(toasts, ErrorToast)
                      /\ windowOpens' = Append(windowOpens,
                             [url |-> LinkedInShare(f.text, f.url), target |-> "_blank"])
                      /\ UNCHANGED <<hrefAssignments, downloads>>
                /\ f.platform = "email" =>
                      /\ toasts' = Append(toasts, ErrorToast)
                      /\ hrefAssignments' = Append(hrefAssignments, Mailto(f.text, f.url))
                      /\ UNCHANGED <<windowOpens, downloads>>
                /\ f.platform = "download" =>
                      /\ toasts' = Append(toasts, ErrorToast)
                      /\ UNCHANGED <<windowOpens, hrefAssignments, downloads>>
                /\ Len(shares') = Len(shares)
                /\ \A j \in DOMAIN shares : j # i => shares'[j] = shares[j]
                /\ UNCHANGED <<inputs, showResults, isOpen>>
          /\ shares[i].pc = "done" => shares'[i] = shares[i]]_vars

\* a share on x whose rendering failed has opened its window
C8_FailedShareOpened ==
    \E i \in DOMAIN shares :
        /\ shares[i].pc = "done"
        /\ shares[i].caught
        /\ shares[i].platform = "x"
        /\ toasts = <<ErrorToast>>
        /\ Len(windowOpens) = 1

\* C9: every state is Editing or Results and the first is Editing; a step
\* from Editing that changes the mode goes to Results, is the step of
\* Calculate and leaves the inputs unchanged; a step from Results that changes
\* the mode goes to Editing and is the step of Reset; a step that changes the
\* inputs without being Reset (a slider) or that starts or resumes a share
\* leaves the mode unchanged.
C9_TwoModes ==
    /\ Editing
    /\ [](Editing \/ Results)
    /\ [][/\ (Editing /\ ~Editing') => (Results' /\ inputs' = inputs /\ ClickCalculate)
          /\ (Results /\ ~Results') => (Editing' /\ ClickReset)
          /\ (inputs' # inputs /\ ~ClickReset) => UNCHANGED <<showResults, isOpen>>
          /\ shares' # shares => UNCHANGED <<showResults, isOpen>>]_vars

\* results mode entered by Calculate with inputs a slider set, one share
\* resumed there
C9_ResultsReached ==
    /\ Results
    /\ inputs # InitialInputs
    /\ \E i \in DOMAIN shares : shares[i].pc = "done"

\* C10: a share is invoked in results mode and holds the inputs of that
\* moment for good; when it resumes on x, linkedin or email, the text it emits
\* carries the level and the score of those inputs, whatever the inputs are
\* by then.
C10_ShareTextOfTriggerInputs ==
    [][\A i \in DOMAIN shares' :
          /\ i \notin DOMAIN shares => (showResults /\ shares'[i].inputs = inputs)
          /\ i \in DOMAIN shares => shares'[i].inputs = shares[i].inputs
          /\ Resumes(i) =>
                LET f == shares[i]
                    s == calculateRiskScore(f.inputs)
                    text == ShareText(getRiskLevel(s).level, s)
                IN  /\ f.platform = "x" =>
                          windowOpens' = Append(windowOpens,
                              [url |-> TweetIntent(text, PageUrl), target |-> "_blank"])
                    /\ f.platform = "linkedin" =>
                          windowOpens' = Append(windowOpens,
                              [url |-> LinkedInShare(text, PageUrl), target |-> "_blank"])
                    /\ f.platform = "email" =>
                          hrefAssignments' = Append(hrefAssignments, Mailto(text, PageUrl))]_vars

\* after a Reset, a share on x has emitted a text that is not the text of the
\* inputs as they are now
C10_EmittedAfterReset ==
    /\ Editing
    /\ \E i \in DOMAIN shares :
          /\ shares[i].pc = "done"
          /\ shares[i].platform = "x"
          /\ Len(windowOpens) = 1
          /\ windowOpens[1].url.text = encodeURIComponent(shares[i].text)
          /\ shares[i].text
                # ShareText(getRiskLevel(calculateRiskScore(inputs)).level,
                            calculateRiskScore(inputs))

====
